---- MODULE Spec2Model ----
(***************************************************************************)
(* Model of sensor01.py: the Sensor class (read, process, got_info,        *)
(* got_data, got_error) and the main read / process / write loop.          *)
(*                                                                         *)
(* Text is a sequence of one-character strings.  An optional value is a    *)
(* sequence of length 0 (None) or 1 (the value).  A float is the exact     *)
(* decimal it was parsed from, normalised: [num |-> n, exp |-> k] stands   *)
(* for n / 10^k with no trailing zero in the fraction.                     *)
(***************************************************************************)
EXTENDS Integers, Sequences, FiniteSets, TLC

None == <<>>
Some(x) == <<x>>

\* ---- bytes and characters -------------------------------------------------

COLON == ":"
LF == "LF"
CR == "CR"
SP == " "
\* a byte above 0x7f, which bytes.decode('ascii') rejects
HiByte == "0xFF"

Whitespace == {LF, CR, SP}
Digits == {"0", "1", "2", "3", "4", "5", "6", "7", "8", "9"}

DigitVal(c) ==
  CASE c = "0" -> 0 [] c = "1" -> 1 [] c = "2" -> 2 [] c = "3" -> 3
    [] c = "4" -> 4 [] c = "5" -> 5 [] c = "6" -> 6 [] c = "7" -> 7
    [] c = "8" -> 8 [] c = "9" -> 9

\* ---- bounds of the inputs -------------------------------------------------

\* largest number of colon-separated fields in a generated payload
MaxFields == 4

\* the count of consecutive failures is followed up to this number
MaxStreak == 2

\* the field texts payloads are built from: a text that is a number and a
\* text that is not
FieldTexts == { <<"7">>, <<"x">> }

\* ---- str methods ----------------------------------------------------------

\* The operations on text are functions, so that each is applied to the
\* value of its argument.
Text == Seq(STRING)

\* s[a:] and s[:b] for 0 <= a, b
DropFirst(t, a) == IF a >= Len(t) THEN <<>> ELSE SubSeq(t, a + 1, Len(t))
TakeFirst(t, b) == IF b >= Len(t) THEN t ELSE SubSeq(t, 1, b)

\* str.strip(): leading and trailing whitespace removed
LStrip[t \in Text] ==
  IF t # <<>> /\ Head(t) \in Whitespace THEN LStrip[Tail(t)] ELSE t

RStrip[t \in Text] ==
  IF t # <<>> /\ t[Len(t)] \in Whitespace
    THEN RStrip[SubSeq(t, 1, Len(t) - 1)]
    ELSE t

Strip[t \in Text] == RStrip[LStrip[t]]

\* str.split(':'): always at least one field, empty fields are kept
SplitAcc[t \in Text, cur \in Text, acc \in Seq(Text)] ==
  IF t = <<>> THEN Append(acc, cur)
  ELSE IF Head(t) = COLON THEN SplitAcc[Tail(t), <<>>, Append(acc, cur)]
  ELSE SplitAcc[Tail(t), Append(cur, Head(t)), acc]

Split[t \in Text] == SplitAcc[t, <<>>, <<>>]

\* ':'.join(fields)
RECURSIVE Join(_)
Join(fs) ==
  IF Len(fs) = 0 THEN <<>>
  ELSE IF Len(fs) = 1 THEN fs[1]
  ELSE fs[1] \o <<COLON>> \o Join(Tail(fs))

\* bytes.decode('ascii'): None when a byte is not ASCII (UnicodeDecodeError)
Decode(bytes) ==
  IF \E i \in 1..Len(bytes) : bytes[i] = HiByte THEN None ELSE Some(bytes)

\* ---- float() --------------------------------------------------------------

DigitsVal[t \in Text, acc \in Nat] ==
  IF t = <<>> THEN acc ELSE DigitsVal[Tail(t), acc * 10 + DigitVal(Head(t))]

AllDigits[t \in Text] == \A i \in 1..Len(t) : t[i] \in Digits

Normalise[n \in Nat, k \in Nat] ==
  IF k > 0 /\ n % 10 = 0 THEN Normalise[n \div 10, k - 1]
  ELSE [num |-> n, exp |-> k]

\* position of the first '.' at or after i, 0 when there is none
DotAt[t \in Text, i \in Nat] ==
  IF i > Len(t) THEN 0 ELSE IF t[i] = "." THEN i ELSE DotAt[t, i + 1]

\* float() of a text already stripped, without its sign
Unsigned[u \in Text] ==
  LET d == DotAt[u, 1]
      ip == IF d = 0 THEN u ELSE SubSeq(u, 1, d - 1)
      fp == IF d = 0 THEN <<>> ELSE SubSeq(u, d + 1, Len(u))
  IN  IF AllDigits[ip] /\ AllDigits[fp] /\ Len(ip) + Len(fp) > 0
        THEN Some(Normalise[DigitsVal[ip \o fp, 0], Len(fp)])
        ELSE None

\* the floats: num / 10^exp
Decimal == [num : Int, exp : Nat]

Negated[v \in Seq(Decimal)] ==
  IF v = None THEN None ELSE Some([num |-> 0 - v[1].num, exp |-> v[1].exp])

\* float(text): the whitespace around the number is ignored, then an
\* optional sign and digits with at most one '.' and at least one digit;
\* None when float() raises ValueError.  Exponents, "inf", "nan" and '_'
\* between digits, which float() also accepts, occur in no line read here.
Stripped[t \in Text] ==
  IF t # <<>> /\ Head(t) = "-" THEN Negated[Unsigned[Tail(t)]]
  ELSE IF t # <<>> /\ Head(t) = "+" THEN Unsigned[Tail(t)]
  ELSE Unsigned[t]

Float[text \in Text] == Stripped[Strip[text]]

\* ---- what the serial port can deliver --------------------------------------

\* all sequences of 1..n field texts
RECURSIVE FieldSeqs(_)
FieldSeqs(n) ==
  IF n = 0 THEN { <<>> }
  ELSE LET shorter == FieldSeqs(n - 1)
       IN  shorter \cup { Append(fs, f) : fs \in { g \in shorter : Len(g) = n - 1 },
                                          f \in FieldTexts }

\* payloads: the empty payload and every join of 1..MaxFields field texts
Payloads == { Join(fs) : fs \in FieldSeqs(MaxFields) }

KnownTags == { <<"I", COLON>>, <<"D", COLON>>, <<"E", COLON>> }

\* lines with one of the three tags of the protocol
TaggedLines == { tag \o p : tag \in KnownTags, p \in Payloads }

\* lines with no known tag: empty, one character, a wrong tag, a tag in the
\* wrong case, a well-formed data payload behind a wrong tag
OtherLines ==
  { <<>>, <<"D">>, <<COLON>>, <<"X", COLON>>,
    <<"d", COLON, "7", COLON, "7", COLON, "7">>,
    <<"D", "D", COLON, "7", COLON, "7", COLON, "7">>, <<"x", "x", "x">> }

\* lines with decimal points, signs and longer texts:
\* I:boot:C:7:2.1, D:7:21.5:48.0, D:7.0:7.0:-7, D:7:7.0:x, I:x:x:7:x:x
DecimalLines ==
  { <<"I", COLON, "b", "o", "o", "t", COLON, "C", COLON, "7", COLON, "2", ".", "1">>,
    <<"D", COLON, "7", COLON, "2", "1", ".", "5", COLON, "4", "8", ".", "0">>,
    <<"D", COLON, "7", ".", "0", COLON, "7", ".", "0", COLON, "-", "7">>,
    <<"D", COLON, "7", COLON, "7", ".", "0", COLON, "x">>,
    <<"I", COLON, "x", COLON, "x", COLON, "7", COLON, "x", COLON, "x">> }

Lines == TaggedLines \cup OtherLines \cup DecimalLines

\* what readline() returns: a line and its terminator, possibly with
\* whitespace around it or a byte that is not ASCII (line noise)
Terminated == { l \o <<CR, LF>> : l \in Lines }
Noisy ==
  { <<HiByte, CR, LF>>,
    <<"D", COLON, "7", COLON, "7", COLON, "7", HiByte, CR, LF>>,
    <<HiByte, "I", COLON, "x", COLON, "x", COLON, "7", COLON, "x", CR, LF>> }
Padded == { <<SP, "D", COLON, "x", COLON, "7", COLON, "7", SP, LF>> }

ReadlineResults == Terminated \cup Noisy \cup Padded

\* one readline() result of each kind: a well-formed I:, D: and E: line, an
\* unknown tag, an empty line, field-count mismatches, a non-numeric field,
\* a measurement with another id, line noise
FewResults ==
  { <<"I", COLON, "x", COLON, "x", COLON, "7", COLON, "x", CR, LF>>,
    <<"D", COLON, "7", COLON, "7", COLON, "7", CR, LF>>,
    <<"D", COLON, "x", COLON, "7", ".", "0", COLON, "7", CR, LF>>,
    <<"E", COLON, "x", CR, LF>>,
    <<"X", COLON, CR, LF>>,
    <<CR, LF>>,
    <<"I", COLON, "x", COLON, "7", CR, LF>>,
    <<"D", COLON, "7", COLON, "7", CR, LF>>,
    <<"D", COLON, "7", COLON, "7", COLON, "x", CR, LF>>,
    <<"D", COLON, "7", COLON, "x", COLON, "7", CR, LF>>,
    <<HiByte, CR, LF>> }

\* ---- the Sensor object and the main loop ----------------------------------

VARIABLES
  s,       \* the Sensor object: id, ver, scale, line, temperature, humidity
  pc,      \* position of the main loop: "read", "process", "write", "crashed"
  ret,     \* what s.process() returned in this iteration
  log,     \* debug() and data() calls of this iteration, in order
  slept,   \* number of time.sleep(1) calls of this iteration
  pre,     \* the Sensor object as read() left it, before s.process()
  rd,      \* what this iteration's readline() did: None before the first
           \* iteration, <<"IOError">> or <<bytes>>
  sent,    \* the write_points() calls of this iteration, in order
  streak   \* failures since the last iteration without one, up to MaxStreak

vars == <<s, pc, ret, log, slept, pre, rd, sent, streak>>

\* one call of debug() or data()
Event(kind, args) == [kind |-> kind, args |-> args]

\* the result of a method that returns: the object after it, its return
\* value, what it logged and how often it slept
Outcome(obj, r, events, naps) ==
  [obj |-> obj, ret |-> r, log |-> events, slept |-> naps, exc |-> None]

\* the result of a method that raises: no return value
Raise(obj, kind) ==
  [obj |-> obj, ret |-> FALSE, log |-> <<>>, slept |-> 0, exc |-> Some(kind)]

\* Sensor.__init__
SensorInit ==
  [id |-> None, ver |-> None, scale |-> None, line |-> None,
   temperature |-> None, humidity |-> None]

\* got_info with scale and id unpacked in the wrong order
got_info_swapped(self, i) ==
  LET f == Split[i]
  IN  IF Len(f) # 4
        THEN Outcome(self, FALSE, << Event("got_info", <<i>>) >>, 1)
        ELSE Outcome([self EXCEPT !.scale = Some(f[3]), !.id = Some(f[2]),
                                  !.ver = Some(f[4])],
                     FALSE,
                     << Event("boot", <<f[3], f[2], f[4]>>) >>, 0)

\* got_info that keeps an id once it is recorded
got_info_keep(self, i) ==
  LET f == Split[i]
  IN  IF Len(f) # 4
        THEN Outcome(self, FALSE, << Event("got_info", <<i>>) >>, 1)
        ELSE Outcome([self EXCEPT !.scale = Some(f[2]),
                                  !.id = IF self.id = None THEN Some(f[3]) ELSE self.id,
                                  !.ver = Some(f[4])],
                     FALSE,
                     << Event("boot", <<f[2], f[3], f[4]>>) >>, 0)

\* got_info that takes the first four fields of a longer payload
got_info_lenient(self, i) ==
  LET f == Split[i]
  IN  IF Len(f) < 4
        THEN Outcome(self, FALSE, << Event("got_info", <<i>>) >>, 1)
        ELSE Outcome([self EXCEPT !.scale = Some(f[2]), !.id = Some(f[3]),
                                  !.ver = Some(f[4])],
                     FALSE,
                     << Event("boot", <<f[2], f[3], f[4]>>) >>, 0)

\* got_info that assigns field by field and misses the version on a payload
\* of three fields
got_info_eager(self, i) ==
  LET f == Split[i]
  IN  IF Len(f) = 3
        THEN Outcome([self EXCEPT !.scale = Some(f[2]), !.id = Some(f[3])],
                     FALSE, << Event("got_info", <<i>>) >>, 1)
      ELSE IF Len(f) # 4
        THEN Outcome(self, FALSE, << Event("got_info", <<i>>) >>, 1)
      ELSE Outcome([self EXCEPT !.scale = Some(f[2]), !.id = Some(f[3]),
                                !.ver = Some(f[4])],
                   FALSE,
                   << Event("boot", <<f[2], f[3], f[4]>>) >>, 0)

\* Sensor.got_info
got_info(self, i) ==
  LET f == Split[i]
  IN  IF Len(f) # 4
        THEN Outcome(self, FALSE, << Event("got_info", <<i>>) >>, 1)
        ELSE Outcome([self EXCEPT !.scale = Some(f[2]), !.id = Some(f[3]),
                                  !.ver = Some(f[4])],
                     FALSE,
                     << Event("boot", <<f[2], f[3], f[4]>>) >>, 0)

\* got_data that drops a measurement whose id is not the recorded one
got_data_strict(self, d) ==
  LET f == Split[d]
      t == Float[f[2]]
      h == Float[f[3]]
      afterT == IF t # None THEN [self EXCEPT !.temperature = t] ELSE self
  IN  IF Len(f) # 3
        THEN Outcome(self, FALSE, << Event("got_data", <<d>>) >>, 1)
      ELSE IF self.id # Some(f[1])
        THEN Outcome(self, FALSE,
                     << Event("id changed", <<self.id, Some(f[1])>>) >>, 0)
      ELSE IF t = None \/ h = None
        THEN Outcome(afterT, FALSE, << Event("float_error", <<d>>) >>, 1)
      ELSE Outcome([afterT EXCEPT !.humidity = h], TRUE,
                   << Event("data", <<f[1], f[2], f[3]>>) >>, 0)

\* got_data that records the id of the measurement as the sensor's id
got_data_adopt(self, d) ==
  LET f == Split[d]
      changed == IF self.id # Some(f[1])
                   THEN << Event("id changed", <<self.id, Some(f[1])>>) >>
                   ELSE <<>>
      t == Float[f[2]]
      h == Float[f[3]]
      afterT == IF t # None THEN [self EXCEPT !.temperature = t] ELSE self
  IN  IF Len(f) # 3
        THEN Outcome(self, FALSE, << Event("got_data", <<d>>) >>, 1)
      ELSE IF t = None \/ h = None
        THEN Outcome(afterT, FALSE,
                     changed \o << Event("float_error", <<d>>) >>, 1)
      ELSE Outcome([afterT EXCEPT !.humidity = h, !.id = Some(f[1])], TRUE,
                   changed \o << Event("data", <<f[1], f[2], f[3]>>) >>, 0)

\* Sensor.got_data
got_data(self, d) ==
  LET f == Split[d]
      changed == IF self.id # Some(f[1])
                   THEN << Event("id changed", <<self.id, Some(f[1])>>) >>
                   ELSE <<>>
      t == Float[f[2]]
      h == Float[f[3]]
      \* self.temperature is assigned before float(humidity) is evaluated
      afterT == IF t # None THEN [self EXCEPT !.temperature = t] ELSE self
  IN  IF Len(f) # 3
        THEN Outcome(self, FALSE, << Event("got_data", <<d>>) >>, 1)
      ELSE IF t = None \/ h = None
        THEN Outcome(afterT, FALSE,
                     changed \o << Event("float_error", <<d>>) >>, 1)
      ELSE Outcome([afterT EXCEPT !.humidity = h], TRUE,
                   changed \o << Event("data", <<f[1], f[2], f[3]>>) >>, 0)

\* got_error that logs the text up to the first colon only
got_error_first(self, e) ==
  Outcome(self, FALSE, << Event("ERROR", <<self.id, Some(Split[e][1])>>) >>, 0)

\* Sensor.got_error
got_error(self, e) ==
  Outcome(self, FALSE, << Event("ERROR", <<self.id, Some(e)>>) >>, 0)

\* process that looks the tag up without regard to case
process_nocase(self) ==
  IF self.line = None
    THEN Outcome(self, FALSE, <<>>, 0)
    ELSE LET line == self.line[1]
             m_type == TakeFirst(line, 2)
             message == DropFirst(line, 2)
         IN  CASE m_type \in {<<"I", COLON>>, <<"i", COLON>>} -> got_info(self, message)
               [] m_type \in {<<"D", COLON>>, <<"d", COLON>>} -> got_data(self, message)
               [] m_type \in {<<"E", COLON>>, <<"e", COLON>>} -> got_error(self, message)
               [] OTHER -> Outcome(self, FALSE,
                                   << Event("invalid data", <<line>>) >>, 1)

\* self.dispatch[m_type](message): KeyError for a tag that is not a key
dispatch(self, m_type, message) ==
  CASE m_type = <<"I", COLON>> -> got_info(self, message)
    [] m_type = <<"D", COLON>> -> got_data(self, message)
    [] m_type = <<"E", COLON>> -> got_error(self, message)
    [] OTHER -> Raise(self, "KeyError")

\* process with the dispatch outside any try block
process_notry(self) ==
  IF self.line = None
    THEN Outcome(self, FALSE, <<>>, 0)
    ELSE dispatch(self, TakeFirst(self.line[1], 2), DropFirst(self.line[1], 2))

\* process that pauses whenever it has nothing to forward
process_pauses(self) ==
  IF self.line = None
    THEN Outcome(self, FALSE, <<>>, 1)
    ELSE LET line == self.line[1]
             m_type == TakeFirst(line, 2)
             message == DropFirst(line, 2)
             r == dispatch(self, m_type, message)
         IN  IF r.exc # None
               THEN Outcome(r.obj, FALSE,
                            r.log \o << Event("invalid data", <<line>>) >>,
                            r.slept + 1)
               ELSE r

\* Sensor.process
process(self) ==
  IF self.line = None
    THEN Outcome(self, FALSE, <<>>, 0)
    ELSE LET line == self.line[1]
             m_type == TakeFirst(line, 2)
             message == DropFirst(line, 2)
             r == dispatch(self, m_type, message)
         IN  \* except Exception: log the line, ret = False, sleep
             IF r.exc # None
               THEN Outcome(r.obj, FALSE,
                            r.log \o << Event("invalid data", <<line>>) >>,
                            r.slept + 1)
               ELSE r

\* a record with the two measurements in each other's place
Record_swapped(self) ==
  [measurement |-> "table", location |-> "location",
   temperature |-> self.humidity, humidity |-> self.temperature]

\* the record the main loop builds for write_points(); the measurement name,
\* the location tag and the time come from the configuration and the clock
Record(self) ==
  [measurement |-> "table", location |-> "location",
   temperature |-> self.temperature, humidity |-> self.humidity]

\* one call of write_points() and how it ended
Attempt(record, outcome) == [record |-> record, outcome |-> outcome]

\* the count of consecutive failures after n more of them
More(count, n) == IF count + n > MaxStreak THEN MaxStreak ELSE count + n

Init ==
  /\ s = SensorInit
  /\ pc = "read"
  /\ ret = FALSE
  /\ log = <<>>
  /\ slept = 0
  /\ pre = SensorInit
  /\ rd = None
  /\ sent = <<>>
  /\ streak = 0

\* a read failure that is retried at once, without the pause
ReadFail_nopause ==
  /\ pc = "read"
  /\ s' = [s EXCEPT !.line = None]
  /\ log' = << Event("get_data", <<>>) >>
  /\ slept' = 0
  /\ rd' = << <<"IOError">> >>
  /\ pre' = s'
  /\ pc' = "process"
  /\ ret' = FALSE
  /\ sent' = <<>>
  /\ streak' = More(streak, 1)

\* a read failure that leaves the line of the iteration before in place
ReadFail_stale ==
  /\ pc = "read"
  /\ s' = s
  /\ log' = << Event("get_data", <<>>) >>
  /\ slept' = 1
  /\ rd' = << <<"IOError">> >>
  /\ pre' = s'
  /\ pc' = "process"
  /\ ret' = FALSE
  /\ sent' = <<>>
  /\ streak' = More(streak, 1)

\* s.read() where readline() raises
ReadFail ==
  /\ pc = "read"
  /\ s' = [s EXCEPT !.line = None]
  /\ log' = << Event("get_data", <<>>) >>
  /\ slept' = 1
  /\ rd' = << <<"IOError">> >>
  /\ pre' = s'
  /\ pc' = "process"
  /\ ret' = FALSE
  /\ sent' = <<>>
  /\ streak' = More(streak, 1)

\* s.read() where readline() returns data_rd
ReadLine(data_rd) ==
  /\ pc = "read"
  /\ log' = <<>>
  /\ slept' = 0
  /\ rd' = << data_rd >>
  /\ ret' = FALSE
  /\ sent' = <<>>
  /\ UNCHANGED streak
  /\ LET line == Decode(data_rd)
     IN  IF line = None
           \* UnicodeDecodeError leaves read() and the loop, uncaught
           THEN /\ s' = [s EXCEPT !.line = None]
                /\ pc' = "crashed"
           ELSE /\ s' = [s EXCEPT !.line = Some(Strip[line[1]])]
                /\ pc' = "process"
  /\ pre' = s'

Read == ReadFail \/ \E data_rd \in ReadlineResults : ReadLine(data_rd)

\* s.read() with one readline() result of each kind
ReadFew == ReadFail \/ \E data_rd \in FewResults : ReadLine(data_rd)

\* s.process() and the test of its result; an exception that leaves
\* process() leaves the loop
Process ==
  /\ pc = "process"
  /\ LET o == process(s)
     IN  /\ s' = o.obj
         /\ ret' = o.ret
         /\ log' = log \o o.log
         /\ slept' = slept + o.slept
         /\ pc' = IF o.exc # None THEN "crashed"
                   ELSE IF o.ret THEN "write" ELSE "read"
         /\ streak' = IF o.slept > 0 THEN More(streak, o.slept)
                       ELSE IF o.ret \/ slept > 0 THEN streak
                       ELSE 0
  /\ UNCHANGED <<pre, rd, sent>>

\* dbfd.write_points(json) returns
WriteOk ==
  /\ pc = "write"
  /\ sent' = Append(sent, Attempt(Record(s), "ok"))
  /\ pc' = "read"
  /\ streak' = 0
  /\ UNCHANGED <<s, ret, log, slept, pre, rd>>

\* a failed write that is attempted again
WriteFail_retry ==
  /\ pc = "write"
  /\ sent' = Append(sent, Attempt(Record(s), "failed"))
  /\ log' = Append(log, Event("influxdb error", <<>>))
  /\ slept' = slept + 1
  /\ streak' = More(streak, 1)
  /\ pc' = "write"
  /\ UNCHANGED <<s, ret, pre, rd>>

\* a failed write outside any try block
WriteFail_uncaught ==
  /\ pc = "write"
  /\ sent' = Append(sent, Attempt(Record(s), "failed"))
  /\ pc' = "crashed"
  /\ UNCHANGED <<s, ret, log, slept, pre, rd, streak>>

\* a failed write after which the loop gives up once failures have piled up
WriteFail_cutoff ==
  /\ pc = "write"
  /\ sent' = Append(sent, Attempt(Record(s), "failed"))
  /\ log' = Append(log, Event("influxdb error", <<>>))
  /\ slept' = slept + 1
  /\ streak' = More(streak, 1)
  /\ pc' = IF streak' >= MaxStreak THEN "crashed" ELSE "read"
  /\ UNCHANGED <<s, ret, pre, rd>>

\* dbfd.write_points(json) raises
WriteFail ==
  /\ pc = "write"
  /\ sent' = Append(sent, Attempt(Record(s), "failed"))
  /\ log' = Append(log, Event("influxdb error", <<>>))
  /\ slept' = slept + 1
  /\ streak' = More(streak, 1)
  /\ pc' = "read"
  /\ UNCHANGED <<s, ret, pre, rd>>

Next == Read \/ Process \/ WriteOk \/ WriteFail

Spec == Init /\ [][Next]_vars

NextFew == ReadFew \/ Process \/ WriteOk \/ WriteFail

\* the loop over one readline() result of each kind, where the single thread
\* keeps running and readline() returns or raises
FairSpec == Init /\ [][NextFew]_vars /\ WF_vars(NextFew)

TypeOK == pc \in {"read", "process", "write", "crashed"}

\* ---- vocabulary of the properties -----------------------------------------

\* s.process() has returned in this iteration
Processed == rd # None /\ pc \in {"write", "read"}

\* s.process() has returned in this iteration and it was given a line
ProcessedLine == Processed /\ s.line # None

\* the line of this iteration, its tag and the fields of its payload
TheLine == s.line[1]
TheTag == TakeFirst(TheLine, 2)
TheFields == Split[DropFirst(TheLine, 2)]

IsInfo == TheTag = <<"I", COLON>>
IsData == TheTag = <<"D", COLON>>
IsError == TheTag = <<"E", COLON>>

\* a D: line with exactly three fields
IsData3 == IsData /\ Len(TheFields) = 3

\* a D: line with exactly three fields, the last two of them numbers
IsGoodData == IsData3 /\ Float[TheFields[2]] # None /\ Float[TheFields[3]] # None

\* an I: line with exactly four fields
IsInfo4 == IsInfo /\ Len(TheFields) = 4

Logged(e) == \E k \in 1..Len(log) : log[k] = e
LoggedKind(kind) == \E k \in 1..Len(log) : log[k].kind = kind

SameIdentity(a, b) == a.id = b.id /\ a.ver = b.ver /\ a.scale = b.scale

\* ---- C1 -------------------------------------------------------------------

\* C1: after a D: line with exactly three fields whose temperature or
\* humidity field is not a number, the stored temperature, the stored
\* humidity and the identity are what they were before the line.
C1_NoPartialOverwrite ==
  (ProcessedLine /\ IsData3 /\ ~IsGoodData)
    => /\ s.temperature = pre.temperature
       /\ s.humidity = pre.humidity
       /\ SameIdentity(s, pre)

\* ---- C2 -------------------------------------------------------------------

\* C2: no read failure, received line or write failure ends the loop with an
\* unhandled error.
C2_NeverCrashes == pc # "crashed"

\* ---- C3 -------------------------------------------------------------------

\* C3 as stated: for a D:id:t:h line with numeric t and h, process returns
\* True and the record handed to the sink carries sensorId = id,
\* temperature = t and humidity = h of that line.
C3_RecordCarriesId ==
  (ProcessedLine /\ IsGoodData)
    => /\ ret = TRUE
       /\ \A k \in 1..Len(sent) :
            /\ "sensorId" \in DOMAIN sent[k].record
            /\ sent[k].record.sensorId = TheFields[1]
            /\ sent[k].record.temperature = Float[TheFields[2]]
            /\ sent[k].record.humidity = Float[TheFields[3]]

\* C3 amended: for a D:id:t:h line with numeric t and h, process returns
\* True, the data log entry carries id, t and h of that line, and the record
\* handed to the sink carries temperature = t and humidity = h of that line,
\* the configured measurement name and location, and no sensor id.
C3_RecordFromLine ==
  (ProcessedLine /\ IsGoodData)
    => /\ ret = TRUE
       /\ Logged(Event("data", <<TheFields[1], TheFields[2], TheFields[3]>>))
       /\ pc = "read" => Len(sent) = 1
       /\ \A k \in 1..Len(sent) :
            /\ DOMAIN sent[k].record =
                 {"measurement", "location", "temperature", "humidity"}
            /\ sent[k].record.temperature = Float[TheFields[2]]
            /\ sent[k].record.humidity = Float[TheFields[3]]

\* a record was written for a line whose values differ from the stored ones
C3_Witness ==
  /\ ProcessedLine /\ IsGoodData /\ Len(sent) = 1
  /\ pre.temperature # None /\ pre.temperature # sent[1].record.temperature
  /\ pre.humidity # None /\ pre.humidity # sent[1].record.humidity
  /\ TheFields[2] = <<"7", ".", "0">>
  /\ sent[1].record.temperature = Some([num |-> 7, exp |-> 0])

\* ---- C4 -------------------------------------------------------------------

\* C4: in every iteration write_points() is called at most once; when the
\* iteration is over it was called exactly once if the iteration received a
\* D: line with three fields and numeric temperature and humidity, and not at
\* all otherwise; the call is made before the next read.
C4_OneWritePerReading ==
  /\ Len(sent) <= 1
  /\ sent # <<>> => (ProcessedLine /\ IsGoodData)
  /\ (pc = "read" /\ rd # None)
       => (Len(sent) = 1 <=> (s.line # None /\ IsGoodData))

\* a failed write is behind and the loop is about to read the next line
C4_Witness ==
  /\ pc = "read" /\ Len(sent) = 1 /\ sent[1].outcome = "failed"
  /\ s.line # None /\ IsGoodData

\* ---- C5 -------------------------------------------------------------------

\* C5: a line whose first two characters are not I:, D: or E: yields no
\* Reading, leaves the Sensor object unchanged and is logged as invalid data
\* together with the line.
C5_UnknownTagRejected ==
  (ProcessedLine /\ TheTag \notin KnownTags)
    => /\ ret = FALSE
       /\ sent = <<>>
       /\ s = pre
       /\ Logged(Event("invalid data", <<TheLine>>))

\* the empty line and a line of one character were rejected with a known
\* identity and measurement
C5_Witness ==
  /\ ProcessedLine /\ Len(TheLine) < 2 /\ ~IsInfo /\ ~IsData /\ ~IsError
  /\ s.id # None /\ s.temperature # None

\* ---- C6 -------------------------------------------------------------------

\* C6: after a failed write the loop is at its next read, the failure is
\* logged, and the Sensor object is what process() alone made of it, the
\* same as after a successful write.
C6_SinkFailureHarmless ==
  sent # <<>>
    => /\ pc = "read"
       /\ s = process(pre).obj
       /\ ret = TRUE
       /\ sent[Len(sent)].outcome = "failed" <=> LoggedKind("influxdb error")

C6_Witness ==
  /\ pc = "read" /\ sent # <<>> /\ sent[1].outcome = "failed"
  /\ LoggedKind("influxdb error")

\* ---- C7 -------------------------------------------------------------------

\* C7: with an id recorded, a D: line with three fields, numeric temperature
\* and humidity and another id is not suppressed: process returns True, the
\* reading is logged with the id, temperature and humidity of the line, the
\* measurement of the line is stored and written, and the change of id is
\* logged.
C7_MismatchNotSuppressed ==
  (ProcessedLine /\ IsGoodData /\ pre.id # None /\ pre.id # Some(TheFields[1]))
    => /\ ret = TRUE
       /\ Logged(Event("id changed", <<pre.id, Some(TheFields[1])>>))
       /\ Logged(Event("data", <<TheFields[1], TheFields[2], TheFields[3]>>))
       /\ s.temperature = Float[TheFields[2]]
       /\ s.humidity = Float[TheFields[3]]
       /\ pc = "read" => /\ Len(sent) = 1
                         /\ sent[1].record.temperature = Float[TheFields[2]]
                         /\ sent[1].record.humidity = Float[TheFields[3]]

C7_Witness ==
  /\ ProcessedLine /\ IsGoodData /\ pc = "read" /\ Len(sent) = 1
  /\ pre.id = Some(<<"7">>) /\ TheFields[1] = <<"x">>
  /\ LoggedKind("id changed")

\* ---- C8 -------------------------------------------------------------------

\* C8: after an I: line with exactly four fields the identity is the scale,
\* id and version of that line, nothing else of the Sensor object changed,
\* no Reading is produced, and processing the same line once more leaves the
\* Sensor object as it is and again produces no Reading.
C8_InfoSetsIdentity ==
  (ProcessedLine /\ IsInfo4)
    => /\ s.scale = Some(TheFields[2])
       /\ s.id = Some(TheFields[3])
       /\ s.ver = Some(TheFields[4])
       /\ s.temperature = pre.temperature /\ s.humidity = pre.humidity
       /\ ret = FALSE /\ sent = <<>> /\ pc = "read"
       /\ process(s).obj = s
       /\ process(s).ret = FALSE
       /\ process(s).log = log

\* an identity was replaced by another one
C8_Witness ==
  /\ ProcessedLine /\ IsInfo4
  /\ pre.id # None /\ pre.id # s.id /\ pre.scale # s.scale
  /\ s.temperature # None

\* ---- C9 -------------------------------------------------------------------

\* the failures of an iteration
ReadFailed == rd = << <<"IOError">> >>
UnknownTag == ProcessedLine /\ TheTag \notin KnownTags
FieldCountMismatch ==
  ProcessedLine /\ ((IsInfo /\ Len(TheFields) # 4) \/ (IsData /\ Len(TheFields) # 3))
NotANumber == ProcessedLine /\ IsData3 /\ ~IsGoodData
WriteFailed == \E k \in 1..Len(sent) : sent[k].outcome = "failed"

Failed == ReadFailed \/ UnknownTag \/ FieldCountMismatch \/ NotANumber \/ WriteFailed

\* C9: whenever the loop is about to read after an iteration with a read
\* failure, an unknown tag, a field-count mismatch, a non-numeric field or a
\* write failure, it has paused in that iteration.
C9_PauseAfterFailure ==
  (pc = "read" /\ Failed) => slept >= 1

\* the loop is about to read again after two failures in a row
C9_Witness ==
  /\ pc = "read" /\ Failed /\ slept >= 1 /\ streak = MaxStreak

\* ---- C10 ------------------------------------------------------------------

\* C10: after every failure, however many failures came before it, the loop
\* comes back to its read and performs it (readline() returns or raises).
C10_ReadsAgain ==
  [](Failed => <>(pc = "read" /\ <>(pc \in {"process", "crashed"})))

\* the count of consecutive failures is at its cap and the iteration failed
C10_Witness ==
  /\ Failed /\ streak = MaxStreak /\ pc = "process"

\* ---- C11 ------------------------------------------------------------------

\* C11: for a D: line with three fields the change of id is logged exactly
\* when an id is recorded and differs from the id of the line; it is not
\* logged while no id is recorded.
C11_MismatchOnlyWhenRecorded ==
  (ProcessedLine /\ IsData3)
    => (LoggedKind("id changed")
          <=> (pre.id # None /\ pre.id # Some(TheFields[1])))

\* ---- C12 ------------------------------------------------------------------

NoIdentity(self) == self.id = None /\ self.ver = None /\ self.scale = None

\* C12: before the first line is read there is no identity, and the only
\* step that changes scale, id or version is s.process() of an I: line with
\* exactly four fields.
C12_IdentityOnlyByInfo ==
  [][/\ rd = None => NoIdentity(s)
     /\ ~SameIdentity(s', s) => (pc = "process" /\ s.line # None /\ IsInfo4)]_vars

\* a measurement with another id was written and the identity stayed
C12_Witness ==
  /\ ProcessedLine /\ IsGoodData /\ sent # <<>>
  /\ pre.id # None /\ pre.id # Some(TheFields[1])
  /\ SameIdentity(s, pre)

\* ---- C13 ------------------------------------------------------------------

\* C13 as stated: when an I: line with four fields or a D: line with three
\* fields reports an id other than the recorded one, the mismatch is logged
\* and the recorded id becomes the reported one.
C13_MismatchOverwrites ==
  /\ (ProcessedLine /\ IsInfo4 /\ pre.id # None /\ pre.id # Some(TheFields[3]))
       => (LoggedKind("id changed") /\ s.id = Some(TheFields[3]))
  /\ (ProcessedLine /\ IsData3 /\ pre.id # None /\ pre.id # Some(TheFields[1]))
       => (LoggedKind("id changed") /\ s.id = Some(TheFields[1]))

\* C13 amended: an I: line with four fields that reports another id
\* overwrites the recorded id and logs the boot only, no mismatch; a D: line
\* with three fields that reports another id logs the mismatch and leaves
\* the recorded id as it is.
C13_MismatchHandling ==
  /\ (ProcessedLine /\ IsInfo4 /\ pre.id # None /\ pre.id # Some(TheFields[3]))
       => /\ s.id = Some(TheFields[3])
          /\ log = << Event("boot", <<TheFields[2], TheFields[3], TheFields[4]>>) >>
  /\ (ProcessedLine /\ IsData3 /\ pre.id # None /\ pre.id # Some(TheFields[1]))
       => /\ Logged(Event("id changed", <<pre.id, Some(TheFields[1])>>))
          /\ s.id = pre.id

\* an I: line replaced the recorded id x by 7
C13_Witness ==
  /\ ProcessedLine /\ IsInfo4
  /\ pre.id = Some(<<"x">>) /\ s.id = Some(<<"7">>)

\* ---- C14 ------------------------------------------------------------------

\* C14: for every line and every Sensor object process() returns True or
\* False and raises nothing; the loop never stops in process(); an unknown
\* tag, a field-count mismatch and a non-numeric field each end in False, a
\* log entry and no write.
C14_DispatchNeverRaises ==
  /\ pc = "process" => (process(s).exc = None /\ process(s).ret \in BOOLEAN)
  /\ pc = "crashed" => (rd # None /\ Decode(rd[1]) = None)
  /\ (UnknownTag \/ FieldCountMismatch \/ NotANumber)
       => (ret = FALSE /\ log # <<>> /\ sent = <<>> /\ pc = "read")

\* a D: line with four fields was turned into False and a log entry
C14_Witness ==
  /\ ProcessedLine /\ IsData /\ Len(TheFields) = 4
  /\ ret = FALSE /\ LoggedKind("got_data") /\ pc = "read"

\* ---- C15 ------------------------------------------------------------------

\* C15: in an iteration whose readline() raised, the Sensor object holds no
\* line, process() dispatches nothing and returns False, nothing is written,
\* and the read failure is the only log entry.
C15_NoDispatchOnReadFailure ==
  ReadFailed
    => /\ s.line = None
       /\ sent = <<>>
       /\ Processed => /\ ret = FALSE
                       /\ s = pre
                       /\ log = << Event("get_data", <<>>) >>
                       /\ pc = "read"

\* a read failed after a measurement and an identity had been stored
C15_Witness ==
  /\ pc = "read" /\ ReadFailed
  /\ s.temperature # None /\ s.humidity # None /\ s.id # None

\* ---- C16 ------------------------------------------------------------------

\* C16: an I: line whose payload has not exactly four fields yields no
\* Reading, leaves scale, id, version and the rest of the Sensor object as
\* they were, and is logged with its payload.
C16_BadInfoRejected ==
  (ProcessedLine /\ IsInfo /\ Len(TheFields) # 4)
    => /\ ret = FALSE
       /\ sent = <<>>
       /\ SameIdentity(s, pre)
       /\ s = pre
       /\ log = << Event("got_info", <<DropFirst(TheLine, 2)>>) >>

\* an I: line with five fields whose third field is not the recorded id
C16_Witness ==
  /\ ProcessedLine /\ IsInfo /\ Len(TheFields) = 5
  /\ s.id # None /\ s.id # Some(TheFields[3])

\* ---- C17 ------------------------------------------------------------------

\* C17: every E: line, whatever follows the tag, logs the whole remainder
\* together with the recorded id as its only log entry, yields no Reading,
\* takes no pause and leaves the Sensor object unchanged.
C17_ErrorLineLogged ==
  (ProcessedLine /\ IsError)
    => /\ ret = FALSE
       /\ sent = <<>>
       /\ s = pre
       /\ slept = 0
       /\ log = << Event("ERROR", <<pre.id, Some(DropFirst(TheLine, 2))>>) >>

\* an E: line with colons in its text, with an id recorded
C17_Witness ==
  /\ ProcessedLine /\ IsError /\ Len(TheFields) >= 3
  /\ s.id # None

\* ---- C18 ------------------------------------------------------------------

\* C18: no iteration pauses more than once, and when the loop is about to
\* read again the iteration before has paused exactly once if it had a read
\* failure, an unknown tag, a field-count mismatch, a non-numeric field or a
\* write failure, and not at all otherwise.
C18_PauseOncePerFailure ==
  /\ slept <= 1
  /\ (pc = "read" /\ rd # None) => (slept = 1 <=> Failed)

\* a write failure was the one pause of its iteration
C18_Witness ==
  /\ pc = "read" /\ WriteFailed /\ slept = 1 /\ s.id # None

\* ---- C19 ------------------------------------------------------------------

\* C19: scale, id and version are all unset or all set.
C19_IdentityAllOrNone ==
  \/ NoIdentity(s)
  \/ (s.id # None /\ s.ver # None /\ s.scale # None)

\* the identity is complete after an I: line with too few fields
C19_Witness ==
  /\ ProcessedLine /\ IsInfo /\ Len(TheFields) = 3
  /\ s.id # None /\ s.ver # None /\ s.scale # None

====
